---- MODULE Spec2Model ----
(***************************************************************************)
(* Model of the dependency-graph traversal of src/maya_node_graph.py.      *)
(*                                                                         *)
(* The host scene (cmds.objExists, cmds.nodeType, cmds.listConnections) is *)
(* the state `exists`, `ntype`, `conn`.  One call of the generator         *)
(* traverse_graph is modelled at the granularity of its while loop: the    *)
(* call itself, one dequeue (up to a `continue` or the `yield`), the       *)
(* resumption after a yield (the neighbour queries and the enqueueing) and *)
(* the loop exit.                                                          *)
(***************************************************************************)
EXTENDS Integers, Sequences, FiniteSets, TLC

\* ------------------------------------------------------------------ bounds

\* Largest number of connections (counted with multiplicity) in a scene.
MaxConns == 3

\* Largest non-negative max_depth argument tried (-1 is always tried).
MaxDepthArg == 1

\* Largest number of pairs in an answer of cmds.listConnections to
\* get_all_connections.
MaxPairs == 2

\* The max_size of the selection stack (the program's stack holds 50
\* snapshots; the eviction of the oldest one is the same at any size).
MaxSize == 3

\* Largest number of validators in an export config.
MaxValidators == 3

\* Ceiling of the count of entries dequeued within one next(); the queue of
\* a call never holds that many entries (DequeuedBelowCeiling).
MaxDequeued == 6

\* ------------------------------------------------------------- the scene

NodeIds == {"A", "B", "C", "D"}

\* The names used by the scenes of Init, which hold at most three nodes.
SmallIds == {"A", "B", "C"}

\* The order in which the host lists the nodes connected to a node.
NodeOrder == <<"A", "B", "C", "D">>

NodeTypes == {"mesh", "file"}

UPSTREAM == "UPSTREAM"
DOWNSTREAM == "DOWNSTREAM"
BOTH == "BOTH"

TraversalDirection == {UPSTREAM, DOWNSTREAM, BOTH}

\* node_filter: None is <<>>, a set S of type names is <<S>>.
None == <<>>

FilterArgs == {None} \cup {<<S>> : S \in SUBSET NodeTypes}

DepthArgs == (-1) .. MaxDepthArg

\* The ceiling get_shading_network passes to traverse_graph.
ShadingMaxDepth == 20

FIND == "find_connected_nodes_by_type"
SHADING == "get_shading_network"
DIRECT == "direct"

VARIABLES
    exists,        \* the nodes of the scene (cmds.objExists)
    ntype,         \* the type of each node of the scene (cmds.nodeType)
    conn,          \* conn[<<s, d>>]: number of connections from s to d
    start_node,    \* arguments of the call
    direction,
    max_depth,
    node_filter,
    pc,            \* "created", "loop", "yield", "done", "raised"; "idle": no call
    visited,       \* local of the generator
    queue,         \* local of the generator: sequence of <<node, depth>>
    current,       \* <<current_node, depth>> of the loop iteration in progress
    yielded,       \* history: the records yielded so far, in order
    expanded,      \* history: the nodes whose connections were listed
    typed,         \* history: the nodes whose type traverse_graph asked
    dequeued,      \* history: the entries dequeued since the last next() began
    caller,        \* who consumes the sequence: "direct" or a query function
    target_type,   \* argument of find_connected_nodes_by_type
    results,       \* local of find_connected_nodes_by_type
    network,       \* local of get_shading_network: a dict, type -> list of nodes
    node_arg,      \* get_all_connections: the argument `node`
    links,         \* the connections the host lists for it, as pairs of plugs
    plugs,         \* local: the flat list of plug names the host returned
    idx,           \* local: the loop index i
    connections,   \* local: the list of ConnectionInfo built so far
    xpc,           \* "idle", "loop", "returned"
    other_call,    \* a second call of traverse_graph: its arguments and locals
    dg,            \* DGIterator: the names of the scene, the argument, the object
    ex,            \* SceneExporter: its config, the locals of export(), history
    sel            \* the selection of the host, the global _selection_stack, and
                   \* history: the last two calls (last, last2), the selections
                   \* before them (before, before2), what the last one returned

scene == <<exists, ntype, conn>>
args == <<start_node, direction, max_depth, node_filter>>
vars == <<exists, ntype, conn, start_node, direction, max_depth, node_filter,
          pc, visited, queue, current, yielded, expanded, typed, dequeued,
          caller, target_type, results, network,
          node_arg, links, plugs, idx, connections, xpc, other_call, dg, sel, ex>>

\* The consumer of the sequence.
consumer == <<caller, target_type, results, network>>

\* The state of the traversal and of its consumers.
traversal == <<scene, args, pc, visited, queue, current, yielded, expanded, typed,
               dequeued,
               consumer>>

\* The state of get_all_connections.
extractor == <<node_arg, links, plugs, idx, connections, xpc>>

\* The state of the functions other than the traversal and its consumers.
elsewhere == <<extractor, other_call, dg, sel, ex>>

\* What the steps of get_all_connections, of the second call and of
\* DGIterator leave alone.
exceptExtractor == <<traversal, other_call, dg, sel, ex>>
exceptOther == <<traversal, extractor, dg, sel, ex>>
exceptDG == <<traversal, extractor, other_call, sel, ex>>
exceptSel == <<traversal, extractor, other_call, dg, ex>>
exceptExport == <<traversal, extractor, other_call, dg, sel>>

\* --------------------------------------------------------------- helpers

Repeat(x, k) == [i \in 1 .. k |-> x]

\* The scenes over a set of nodes: every way of drawing at most MaxConns
\* connections (several may join the same two nodes, a node may feed itself).
Pairs(E) == E \X E

RECURSIVE ConnsUpTo(_, _)
ConnsUpTo(E, k) ==
    IF k = 0 THEN {[p \in Pairs(E) |-> 0]}
    ELSE LET prev == ConnsUpTo(E, k - 1)
         IN  prev \cup {[c EXCEPT ![p] = @ + 1] : c \in prev, p \in Pairs(E)}

\* The sources of the connections into node, in the host's order.
RECURSIVE ListFrom(_, _, _)
ListFrom(c, node, i) ==
    IF i > Len(NodeOrder) THEN <<>>
    ELSE (IF NodeOrder[i] \in exists
          THEN Repeat(NodeOrder[i], c[<<NodeOrder[i], node>>]) ELSE <<>>)
         \o ListFrom(c, node, i + 1)

\* cmds.listConnections(node, source=True, destination=False) or []
listConnectionsSource(node) == ListFrom(conn, node, 1)

\* The destinations of the connections out of node, in the host's order.
RECURSIVE ListTo(_, _, _)
ListTo(c, node, i) ==
    IF i > Len(NodeOrder) THEN <<>>
    ELSE (IF NodeOrder[i] \in exists
          THEN Repeat(NodeOrder[i], c[<<node, NodeOrder[i]>>]) ELSE <<>>)
         \o ListTo(c, node, i + 1)

\* cmds.listConnections(node, source=False, destination=True) or []
listConnectionsDestination(node) == ListTo(conn, node, 1)

\* ------------------------------------------------- traverse_graph, pieces

\* Mutant: the test is `if node_filter is not None:`.
FilterSet_NotNone(f) == f # None

\* `if node_filter:` -- None and the empty set are both falsy.
FilterSet(f) == f # None /\ f[1] # {}

\* Mutant: the test of the filter is inverted.
FilteredOut_Inverted(node) == FilterSet(node_filter) /\ ntype[node] \in node_filter[1]

\* `node_type not in node_filter`
FilteredOut(node) == FilterSet(node_filter) /\ ntype[node] \notin node_filter[1]

\* Mutant: the ceiling is one too high.
TooDeep_OffByOne(depth) == max_depth >= 0 /\ depth > max_depth + 1

\* `max_depth >= 0 and depth > max_depth`
TooDeep(depth) == max_depth >= 0 /\ depth > max_depth

\* Mutant: the upstream query is issued with the flags of the downstream one.
next_nodes_FlagsSwapped(node) ==
    (IF direction \in {UPSTREAM, BOTH} THEN listConnectionsDestination(node) ELSE <<>>)
    \o (IF direction \in {DOWNSTREAM, BOTH} THEN listConnectionsDestination(node) ELSE <<>>)

\* Mutant: the downstream query is made for DOWNSTREAM only, not for BOTH.
next_nodes_BothIsUpstream(node) ==
    (IF direction \in {UPSTREAM, BOTH} THEN listConnectionsSource(node) ELSE <<>>)
    \o (IF direction = DOWNSTREAM THEN listConnectionsDestination(node) ELSE <<>>)

\* next_nodes, lines 173-185
next_nodes(node) ==
    (IF direction \in {UPSTREAM, BOTH} THEN listConnectionsSource(node) ELSE <<>>)
    \o (IF direction \in {DOWNSTREAM, BOTH} THEN listConnectionsDestination(node) ELSE <<>>)

\* Mutant: the neighbours are queued at the depth of the node itself.
RECURSIVE Enqueue_SameDepth(_, _, _, _)
Enqueue_SameDepth(q, nodes, vis, depth) ==
    IF nodes = <<>> THEN q
    ELSE Enqueue_SameDepth(IF Head(nodes) \notin vis
                           THEN Append(q, <<Head(nodes), depth>>) ELSE q,
                           Tail(nodes), vis, depth)

\* Mutant: the neighbours are put at the front of the queue (appendleft).
RECURSIVE Enqueue_AppendLeft(_, _, _, _)
Enqueue_AppendLeft(q, nodes, vis, depth) ==
    IF nodes = <<>> THEN q
    ELSE Enqueue_AppendLeft(IF Head(nodes) \notin vis
                            THEN <<<<Head(nodes), depth + 1>>>> \o q ELSE q,
                            Tail(nodes), vis, depth)

\* Mutant: the neighbours are queued whether visited or not.
RECURSIVE Enqueue_NoVisitedCheck(_, _, _, _)
Enqueue_NoVisitedCheck(q, nodes, vis, depth) ==
    IF nodes = <<>> THEN q
    ELSE Enqueue_NoVisitedCheck(Append(q, <<Head(nodes), depth + 1>>),
                                Tail(nodes), vis, depth)

\* lines 187-189: append (next_node, depth + 1) for each next_node not visited
RECURSIVE Enqueue(_, _, _, _)
Enqueue(q, nodes, vis, depth) ==
    IF nodes = <<>> THEN q
    ELSE Enqueue(IF Head(nodes) \notin vis
                 THEN Append(q, <<Head(nodes), depth + 1>>) ELSE q,
                 Tail(nodes), vis, depth)

\* Mutant: the comparison with target_type is lost, every node is kept.
ResultsAppend_KeepAll(res, node, node_type, target) == Append(res, node)

\* lines 211-212: the body of the loop of find_connected_nodes_by_type
ResultsAppend(res, node, node_type, target) ==
    IF node_type = target THEN Append(res, node) ELSE res

\* Mutant: the bucket is created anew for every node (`if` of line 231 lost).
NetworkAdd_AlwaysNew(net, node, node_type) ==
    (node_type :> <<node>>) @@ net

\* lines 230-233: the body of the loop of get_shading_network
NetworkAdd(net, node, node_type) ==
    LET withKey == IF node_type \notin DOMAIN net
                   THEN net @@ (node_type :> <<>>) ELSE net
    IN  [withKey EXCEPT ![node_type] = Append(@, node)]

\* What the consumer does with a record (node, depth) it receives.
Consume(node) ==
    /\ results' = IF caller = FIND
                  THEN ResultsAppend(results, node, ntype[node], target_type)
                  ELSE results
    /\ network' = IF caller = SHADING
                  THEN NetworkAdd(network, node, ntype[node])
                  ELSE network

\* ---------------------------------------------------- get_all_connections

\* Names are sequences of characters. The host prints a node under its
\* short name; the caller may also name it by its full path.
ShortName(n) == <<n>>
LongName(n) == <<"|", n>>

\* The attributes of the nodes; the last one is the child of a compound.
Attrs == {<<"o">>, <<"i">>, <<"o", ".", "x">>}

\* A plug of the host: a node (under its printed name) and an attribute.
Plug(n, a) == [node |-> ShortName(n), attr |-> a]

\* The plug name the host prints: "node.attr".
PlugName(p) == p.node \o <<".">> \o p.attr

\* The two nodes of the scene of get_all_connections; "C" does not exist.
ExtractNodes == {"A", "B"}

\* The arguments of get_all_connections: "A", "|A" (the same node) and "C".
NodeArgs == {ShortName("A"), LongName("A"), ShortName("C")}

\* line 102: cmds.objExists(node)
objExists(name) == name \in {ShortName("A"), LongName("A"), ShortName("B"), LongName("B")}

\* One pair of cmds.listConnections("A", connections=True, plugs=True): a
\* plug of the queried node, then the plug at the other end.
LinkPairs == {<<Plug("A", a), Plug(n, b)>> : a \in Attrs, n \in ExtractNodes, b \in Attrs}

\* The lists of at most n pairs.
LinkLists(n) == UNION {[1 .. k -> LinkPairs] : k \in 0 .. n}

\* line 105: the flat list plug_a, plug_b, plug_a, plug_b, ...
listConnectionsPlugs(ls) ==
    [k \in 1 .. 2 * Len(ls) |->
        PlugName(ls[(k + 1) \div 2][IF k % 2 = 1 THEN 1 ELSE 2])]

\* Mutant: the name is split at its last dot (rsplit).
Split1_AtLastDot(s) ==
    LET k == CHOOSE k \in 1 .. Len(s) :
                 s[k] = "." /\ \A j \in (k + 1) .. Len(s) : s[j] # "."
    IN  <<SubSeq(s, 1, k - 1), SubSeq(s, k + 1, Len(s))>>

\* lines 111-112: plug.split(".", 1)
Split1(s) ==
    LET k == CHOOSE k \in 1 .. Len(s) :
                 s[k] = "." /\ \A j \in 1 .. (k - 1) : s[j] # "."
    IN  <<SubSeq(s, 1, k - 1), SubSeq(s, k + 1, Len(s))>>

\* lines 45-52: the dataclass ConnectionInfo
ConnectionInfo(sn, sa, dn, da) ==
    [source_node |-> sn, source_attr |-> sa, dest_node |-> dn, dest_attr |-> da]

\* Mutant: the record is built the same way in both branches.
PairToConnection_NoSwap(node, plug_a, plug_b) ==
    LET a == Split1(plug_a)
        b == Split1(plug_b)
    IN  ConnectionInfo(a[1], a[2], b[1], b[2])

\* lines 108-126: the body of the loop
PairToConnection(node, plug_a, plug_b) ==
    LET a == Split1(plug_a)
        b == Split1(plug_b)
    IN  IF a[1] = node
        THEN ConnectionInfo(b[1], b[2], a[1], a[2])
        ELSE ConnectionInfo(a[1], a[2], b[1], b[2])

\* lines 115, 122: connections.append(...)
Collect(conns, c) == Append(conns, c)

ExtractorIdle ==
    /\ node_arg = <<>>
    /\ links = <<>>
    /\ plugs = <<>>
    /\ idx = 0
    /\ connections = <<>>
    /\ xpc = "idle"

\* lines 100-105: the call, up to the answer of the host
GetAllConnections ==
    /\ xpc = "idle"
    /\ \E arg \in NodeArgs : \E ls \in LinkLists(MaxPairs) :
        /\ node_arg' = arg
        /\ connections' = <<>>
        /\ idx' = 0
        /\ IF ~objExists(arg)
           THEN links' = <<>> /\ plugs' = <<>> /\ xpc' = "returned"
           ELSE links' = ls /\ plugs' = listConnectionsPlugs(ls) /\ xpc' = "loop"
    /\ UNCHANGED exceptExtractor

\* lines 107-126: one iteration of `for i in range(0, len(plugs), 2)`
ExtractPair ==
    /\ xpc = "loop"
    /\ idx < Len(plugs)
    /\ connections' = Collect(connections,
                              PairToConnection(node_arg, plugs[idx + 1], plugs[idx + 2]))
    /\ idx' = idx + 2
    /\ UNCHANGED <<node_arg, links, plugs, xpc>>
    /\ UNCHANGED exceptExtractor

\* line 128: return connections
ReturnConnections ==
    /\ xpc = "loop"
    /\ idx >= Len(plugs)
    /\ xpc' = "returned"
    /\ UNCHANGED <<node_arg, links, plugs, idx, connections>>
    /\ UNCHANGED exceptExtractor

\* ------------------------------------------- a second call of traverse_graph

\* No second call has been made.
NoOtherCall == other_call = [pc |-> "idle"]

\* The max_depth of the second call: the default, no limit.
OtherDepthArgs == {-1}

\* lines 161-162, for the ceiling md
TooDeepFor(md, depth) == md >= 0 /\ depth > md

\* lines 173-185, for the direction dir
next_nodes_in(dir, n) ==
    (IF dir \in {UPSTREAM, BOTH} THEN listConnectionsSource(n) ELSE <<>>)
    \o (IF dir \in {DOWNSTREAM, BOTH} THEN listConnectionsDestination(n) ELSE <<>>)

\* lines 156-171, run from the queue q with the visited set vis up to the
\* next yield or to the end: what one next() of the second call executes.
RECURSIVE OtherLoop(_, _, _)
OtherLoop(q, vis, md) ==
    IF q = <<>>
    THEN [pc |-> "done", queue |-> q, visited |-> vis, current |-> <<>>]
    ELSE LET current_node == Head(q)[1]
             depth == Head(q)[2]
         IN  IF current_node \in vis \/ TooDeepFor(md, depth)
             THEN OtherLoop(Tail(q), vis, md)
             ELSE [pc |-> "yield", queue |-> Tail(q),
                   visited |-> vis \cup {current_node},
                   current |-> <<current_node, depth>>]

\* lines 131-136: a call is made (the body does not run before the first
\* next()); a call made earlier, finished or suspended, is left behind.
OtherCall ==
    /\ other_call.pc \in {"idle", "yield", "done"}
    /\ \E s \in NodeIds \cap exists : \E dir \in TraversalDirection :
       \E md \in OtherDepthArgs :
           other_call' = [pc |-> "created", start_node |-> s, direction |-> dir,
                          max_depth |-> md, visited |-> {}, queue |-> <<>>,
                          current |-> <<>>]
    /\ UNCHANGED exceptOther

\* Mutant: the visited set is one set shared by all the calls.
OtherNext_SharedVisited ==
    /\ other_call.pc \in {"created", "yield"}
    /\ LET q == IF other_call.pc = "created"
                THEN <<<<other_call.start_node, 0>>>>
                ELSE Enqueue(other_call.queue,
                             next_nodes_in(other_call.direction, other_call.current[1]),
                             visited, other_call.current[2])
           r == OtherLoop(q, visited, other_call.max_depth)
       IN  /\ other_call' = [other_call EXCEPT !.pc = r.pc, !.queue = r.queue,
                                                !.visited = r.visited,
                                                !.current = r.current]
           /\ visited' = r.visited
    /\ UNCHANGED <<scene, args, pc, queue, current, yielded, expanded, typed,
                   dequeued, consumer, extractor, dg, sel, ex>>

\* One next() of the second call: lines 153-154 at the first one, lines
\* 173-189 at the later ones, then the loop up to the next yield.
OtherNext ==
    /\ other_call.pc \in {"created", "yield"}
    /\ LET vis == IF other_call.pc = "created" THEN {} ELSE other_call.visited
           q == IF other_call.pc = "created"
                THEN <<<<other_call.start_node, 0>>>>
                ELSE Enqueue(other_call.queue,
                             next_nodes_in(other_call.direction, other_call.current[1]),
                             vis, other_call.current[2])
           r == OtherLoop(q, vis, other_call.max_depth)
       IN  other_call' = [other_call EXCEPT !.pc = r.pc, !.queue = r.queue,
                                            !.visited = r.visited,
                                            !.current = r.current]
    /\ UNCHANGED exceptOther

\* ------------------------------------------------------------ DGIterator

\* The short names of the nodes: nodes under different parents may bear the
\* same one. "z" is borne by no node.
ShortNames == {"x", "y"}
StartNames == {"x", "y", "z"}

NoDGIterator == dg = [pc |-> "idle"]

\* line 253: MSelectionList.add(name) adds every node the name matches, in
\* the host's order.
Matching(names, name) ==
    SelectSeq(NodeOrder, LAMBDA n : n \in DOMAIN names /\ names[n] = name)

\* Mutant: the construction succeeds with no object when nothing matches.
Construct_NoMatchIsSilent(names, name) ==
    LET selection_list == Matching(names, name)
    IN  IF selection_list = <<>>
        THEN [pc |-> "constructed", names |-> names, start_node |-> name,
              selection_list |-> selection_list, start_obj |-> "null"]
        ELSE [pc |-> "constructed", names |-> names, start_node |-> name,
              selection_list |-> selection_list, start_obj |-> selection_list[1]]

\* lines 252-254: add raises when nothing matches; getDependNode(0) is the
\* first entry of the list.
Construct(names, name) ==
    LET selection_list == Matching(names, name)
    IN  IF selection_list = <<>>
        THEN [pc |-> "failed", names |-> names, start_node |-> name]
        ELSE [pc |-> "constructed", names |-> names, start_node |-> name,
              selection_list |-> selection_list, start_obj |-> selection_list[1]]

\* lines 245-254: DGIterator(start_node)
DGIteratorInit ==
    /\ dg.pc = "idle"
    /\ \E name \in StartNames : dg' = Construct(dg.names, name)
    /\ UNCHANGED exceptDG

\* ------------------------------------------- selection history (the stack)

\* The nodes that can be selected, and the selections.
SelNodes == {"a", "b"}
Selections == SUBSET SelNodes

\* lines 26-32: SelectionMode
SelectionModes == {"REPLACE", "ADD", "REMOVE", "TOGGLE"}

\* The selection module is not in use.
NoSelection == sel = [last |-> "unused"]

\* lines 314-321: cmds.select(nodes, replace / add / deselect / toggle = True)
select(cur, nodes, mode) ==
    CASE mode = "REPLACE" -> nodes
      [] mode = "ADD"     -> cur \cup nodes
      [] mode = "REMOVE"  -> cur \ nodes
      [] mode = "TOGGLE"  -> (cur \ nodes) \cup (nodes \ cur)

\* lines 56-58: SelectionSnapshot.restore. What cmds.select([], replace=True)
\* does with no node to select is the host's affair: it may clear the selection
\* or leave it.
restore(nodes, cur) == IF nodes = {} THEN {{}, cur} ELSE {nodes}

\* Mutant: the oldest snapshot is dropped and the index is left as it was.
push_IndexNotAdjusted(st, ix, cur) ==
    LET index1 == ix + 1
        stack1 == IF index1 < Len(st) THEN SubSeq(st, 1, index1) ELSE st
        stack2 == Append(stack1, cur)
    IN  IF Len(stack2) > MaxSize
        THEN [stack |-> Tail(stack2), index |-> index1, evicted |-> TRUE,
              truncated |-> index1 < Len(st)]
        ELSE [stack |-> stack2, index |-> index1, evicted |-> FALSE,
              truncated |-> index1 < Len(st)]

\* Mutant: the snapshots above the current position are kept.
push_NoTruncate(st, ix, cur) ==
    LET index1 == ix + 1
        stack2 == Append(st, cur)
    IN  IF Len(stack2) > MaxSize
        THEN [stack |-> Tail(stack2), index |-> index1 - 1, evicted |-> TRUE,
              truncated |-> index1 < Len(st)]
        ELSE [stack |-> stack2, index |-> index1, evicted |-> FALSE,
              truncated |-> index1 < Len(st)]

\* lines 69-81: SelectionStack.push, on the stack st, the index ix and the
\* current selection cur. A Python index i is the index i + 1 here.
\* The fields `evicted` and `truncated` record whether pop(0) ran and whether
\* the slice of line 76 was taken.
push(st, ix, cur) ==
    LET index1 == ix + 1
        stack1 == IF index1 < Len(st) THEN SubSeq(st, 1, index1) ELSE st
        stack2 == Append(stack1, cur)
    IN  IF Len(stack2) > MaxSize
        THEN [stack |-> Tail(stack2), index |-> index1 - 1, evicted |-> TRUE,
              truncated |-> index1 < Len(st)]
        ELSE [stack |-> stack2, index |-> index1, evicted |-> FALSE,
              truncated |-> index1 < Len(st)]

\* lines 307-321: _apply_selection(nodes, mode), as called by the selection
\* helpers (lines 219, 250, 290)
ApplySelection ==
    /\ \E nodes \in Selections : \E mode \in SelectionModes :
          IF nodes = {}
          THEN UNCHANGED sel
          ELSE LET p == push(sel.stack, sel.index, sel.selection)
               IN  sel' = [selection |-> select(sel.selection, nodes, mode),
                           stack |-> p.stack, index |-> p.index,
                           evicted |-> p.evicted, truncated |-> p.truncated,
                           last |-> "apply", last2 |-> sel.last,
                           returned |-> "none", before |-> sel.selection,
                           before2 |-> sel.before]
    /\ UNCHANGED exceptSel

\* lines 391, 420-421, 479: select_similar, grow_selection, shrink_selection and
\* set_to_selection call cmds.select themselves, past the history.
SelectDirect ==
    /\ \E nodes \in Selections :
          /\ nodes # sel.selection
          /\ sel' = [sel EXCEPT !.selection = nodes, !.last = "direct",
                                 !.last2 = sel.last, !.returned = "none",
                                 !.before = sel.selection,
                                  !.before2 = sel.before]
    /\ UNCHANGED exceptSel

\* lines 83-89 and 483-485: undo_selection()
UndoSelection ==
    /\ IF sel.index > 0
       THEN \E s \in restore(sel.stack[(sel.index - 1) + 1], sel.selection) :
               sel' = [sel EXCEPT !.index = @ - 1, !.selection = s,
                                  !.last = "undo", !.last2 = sel.last,
                                  !.returned = TRUE, !.before = sel.selection,
                                  !.before2 = sel.before]
       ELSE sel' = [sel EXCEPT !.last = "undo", !.last2 = sel.last,
                               !.returned = FALSE, !.before = sel.selection,
                                  !.before2 = sel.before]
    /\ UNCHANGED exceptSel

\* lines 91-97 and 488-490: redo_selection()
RedoSelection ==
    /\ IF sel.index < Len(sel.stack) - 1
       THEN \E s \in restore(sel.stack[(sel.index + 1) + 1], sel.selection) :
               sel' = [sel EXCEPT !.index = @ + 1, !.selection = s,
                                  !.last = "redo", !.last2 = sel.last,
                                  !.returned = TRUE, !.before = sel.selection,
                                  !.before2 = sel.before]
       ELSE sel' = [sel EXCEPT !.last = "redo", !.last2 = sel.last,
                               !.returned = FALSE, !.before = sel.selection,
                                  !.before2 = sel.before]
    /\ UNCHANGED exceptSel

\* ----------------------------------------------------------- SceneExporter

\* lines 24-30: the suffixes of SUPPORTED_FORMATS
SUPPORTED_FORMATS == {".ma", ".mb", ".fbx", ".abc", ".usd"}

\* The suffixes of the output paths tried.
Suffixes == {".ma", ".MA", ".Fbx", ".obj", ""}

\* str.lower() on the suffixes tried
lower(suffix) ==
    CASE suffix = ".MA"  -> ".ma"
      [] suffix = ".Fbx" -> ".fbx"
      [] OTHER           -> suffix

\* What a call of a validator does: it returns True or False, or it raises
\* an Exception.
ValidatorOutcomes == {"True", "False", "raise"}

\* config.validators: the lists of at most n validators, each given by
\* what its call does.
ValidatorLists(n) == UNION {[1 .. k -> ValidatorOutcomes] : k \in 0 .. n}

NoExporter == ex = [pc |-> "idle"]

\* lines 105-107: SceneExporter(config)
NewExporter ==
    /\ ex.pc = "idle"
    /\ \E suffix \in Suffixes : \E vs \in ValidatorLists(MaxValidators) :
       \E selected_only \in BOOLEAN :
          ex' = [pc |-> "constructed", suffix |-> suffix, validators |-> vs,
                 selected_only |-> selected_only, errors |-> <<>>, vi |-> 0,
                 ran |-> <<>>, mkdir |-> FALSE, exported |-> <<>>,
                 result |-> None]
    /\ UNCHANGED exceptExport

\* lines 179-196: _create_result(success, errors); the path of the output
\* is given by its suffix.
create_result(success, errors) ==
    [success |-> success,
     output_path |-> IF success THEN <<"path", ex.suffix>> ELSE None,
     errors |-> errors]

\* Mutant: every suffix passes.
validate_config_Always(suffix) == TRUE

\* lines 138-144: _validate_config()
validate_config(suffix) == lower(suffix) \in SUPPORTED_FORMATS

\* lines 116-120: export() up to the validators
ExportBegin ==
    /\ ex.pc = "constructed"
    /\ IF ~validate_config(ex.suffix)
       THEN ex' = [ex EXCEPT !.pc = "returned",
                             !.result = create_result(FALSE,
                                            <<"Invalid export configuration">>)]
       ELSE ex' = [ex EXCEPT !.pc = "validators"]
    /\ UNCHANGED exceptExport

\* Mutant: an exception of a validator is swallowed without an error.
ValidatorErrors_RaiseIgnored(errors, k, outcome) ==
    IF outcome = "False" THEN Append(errors, <<"Validation failed", k>>) ELSE errors

\* lines 150-155: the body of the loop of _run_validators for validator k
ValidatorErrors(errors, k, outcome) ==
    CASE outcome = "True"  -> errors
      [] outcome = "False" -> Append(errors, <<"Validation failed", k>>)
      [] outcome = "raise" -> Append(errors, <<"Validator error", k>>)

\* lines 149-155: one iteration of `for validator in self.config.validators`
RunValidator ==
    /\ ex.pc = "validators"
    /\ ex.vi < Len(ex.validators)
    /\ ex' = [ex EXCEPT !.vi = @ + 1,
                        !.ran = Append(@, ex.vi + 1),
                        !.errors = ValidatorErrors(@, ex.vi + 1,
                                                   ex.validators[ex.vi + 1])]
    /\ UNCHANGED exceptExport

\* Mutant: the verdict of the validators is not looked at.
validation_passed_Always(errors) == TRUE

\* line 156: len(errors) == 0
validation_passed(errors) == Len(errors) = 0

\* lines 122-125: after the validators
ValidatorsDone ==
    /\ ex.pc = "validators"
    /\ ex.vi >= Len(ex.validators)
    /\ IF ~validation_passed(ex.errors)
       THEN ex' = [ex EXCEPT !.pc = "returned",
                             !.result = create_result(FALSE, ex.errors)]
       ELSE ex' = [ex EXCEPT !.pc = "mkdir"]
    /\ UNCHANGED exceptExport

\* lines 128, 158-160: _ensure_output_directory(); an OSError of mkdir is
\* not caught by export() and leaves it.
EnsureOutputDirectory ==
    /\ ex.pc = "mkdir"
    /\ \E outcome \in {"ok", "OSError"} :
          ex' = [ex EXCEPT !.mkdir = TRUE,
                           !.pc = IF outcome = "ok" THEN "export" ELSE "raised"]
    /\ UNCHANGED exceptExport

\* lines 129-135, 162-177: _execute_export(): cmds.file(...) succeeds or
\* raises a RuntimeError, which export() turns into a failed result.
ExecuteExport ==
    /\ ex.pc = "export"
    /\ \E outcome \in {"ok", "RuntimeError"} :
          ex' = [ex EXCEPT
                    !.exported = Append(@, IF ex.selected_only
                                           THEN "exportSelected" ELSE "exportAll"),
                    !.pc = "returned",
                    !.result = IF outcome = "ok"
                               THEN create_result(TRUE, <<>>)
                               ELSE create_result(FALSE, <<"RuntimeError">>)]
    /\ UNCHANGED exceptExport

\* ------------------------------------------------------------------ Init

\* No function other than the traversal and its consumers is in use.
ElsewhereIdle ==
    ExtractorIdle /\ NoOtherCall /\ NoDGIterator /\ NoSelection /\ NoExporter

\* The sequence is consumed by the caller itself, not by a query function.
NoQuery ==
    /\ caller = DIRECT
    /\ target_type = "none"
    /\ results = <<>>
    /\ network = <<>>

\* Every scene of at most three nodes, typed in every way, and every call;
\* the start node need not exist.
Init ==
    /\ exists \in SUBSET SmallIds
    /\ ntype \in [exists -> NodeTypes]
    /\ conn \in ConnsUpTo(exists, MaxConns)
    /\ start_node \in SmallIds
    /\ direction \in TraversalDirection
    /\ max_depth \in DepthArgs
    /\ node_filter \in FilterArgs
    /\ pc = "created"
    /\ visited = {}
    /\ queue = <<>>
    /\ current = <<>>
    /\ yielded = <<>>
    /\ expanded = {}
    /\ typed = {}
    /\ dequeued = 0
    /\ NoQuery
    /\ ElsewhereIdle

\* Every scene of four nodes of one type, walked without a filter.
InitWide ==
    /\ exists = NodeIds
    /\ ntype = [n \in exists |-> "mesh"]
    /\ conn \in ConnsUpTo(exists, MaxConns)
    /\ start_node \in NodeIds
    /\ direction \in TraversalDirection
    /\ max_depth \in DepthArgs
    /\ node_filter = None
    /\ pc = "created"
    /\ visited = {}
    /\ queue = <<>>
    /\ current = <<>>
    /\ yielded = <<>>
    /\ expanded = {}
    /\ typed = {}
    /\ dequeued = 0
    /\ NoQuery
    /\ ElsewhereIdle

\* Every call of find_connected_nodes_by_type (line 210: start_node and
\* direction as given, no depth limit, no filter) and of get_shading_network
\* (line 229: upstream, max_depth = 20, no filter) on the scenes of Init.
InitQuery ==
    /\ exists \in SUBSET SmallIds
    /\ ntype \in [exists -> NodeTypes]
    /\ conn \in ConnsUpTo(exists, MaxConns)
    /\ start_node \in SmallIds
    /\ caller \in {FIND, SHADING}
    /\ IF caller = FIND
       THEN /\ target_type \in NodeTypes
            /\ direction \in TraversalDirection
            /\ max_depth = -1
       ELSE /\ target_type = "none"
            /\ direction = UPSTREAM
            /\ max_depth = ShadingMaxDepth
    /\ node_filter = None
    /\ results = <<>>
    /\ network = <<>>
    /\ ElsewhereIdle
    /\ pc = "created"
    /\ visited = {}
    /\ queue = <<>>
    /\ current = <<>>
    /\ yielded = <<>>
    /\ expanded = {}
    /\ typed = {}
    /\ dequeued = 0

\* --------------------------------------------------------------- actions

\* Mutant: the existence check of lines 149-151 is lost.
Call_NoExistsCheck ==
    /\ pc = "created"
    /\ pc' = "loop"
    /\ visited' = {}
    /\ queue' = <<<<start_node, 0>>>>
    /\ dequeued' = 0
    /\ UNCHANGED <<scene, args, current, yielded, expanded, typed, consumer,
                   elsewhere>>

\* lines 149-154: the first next() enters the body.
Call ==
    /\ pc = "created"
    /\ IF start_node \notin exists
       THEN /\ pc' = "done"
            /\ UNCHANGED <<visited, queue>>
       ELSE /\ pc' = "loop"
            /\ visited' = {}
            /\ queue' = <<<<start_node, 0>>>>
    /\ dequeued' = 0
    /\ UNCHANGED <<scene, args, current, yielded, expanded, typed, consumer,
                   elsewhere>>

\* Mutant: the test against the visited set is lost.
AlreadyVisited_Never(node, vis) == FALSE

\* Mutant: the test is inverted (`not in`).
AlreadyVisited_Inverted(node, vis) == node \notin vis

\* line 159: `current_node in visited`
AlreadyVisited(node, vis) == node \in vis

\* Mutant: the head of the queue is read (queue[0]) but never removed.
PopLeft_Peek(q) == q

\* line 157: queue.popleft() leaves the rest of the queue
PopLeft(q) == Tail(q)

\* What the host does when asked about a name that matches no node
\* (cmds.nodeType, cmds.listConnections): Maya raises an error; a host that
\* answers None is allowed for as well.
HostAnswers == {"error", "none"}

\* Mutant: the neighbours are listed and queued before the yield, not after.
Dequeue_ExpandsBeforeYield ==
    /\ pc = "loop"
    /\ queue # <<>>
    /\ LET current_node == Head(queue)[1]
           depth == Head(queue)[2]
       IN  /\ current' = Head(queue)
           /\ dequeued' = IF dequeued < MaxDequeued THEN dequeued + 1 ELSE dequeued
           /\ IF AlreadyVisited(current_node, visited) \/ TooDeep(depth)
              THEN /\ queue' = PopLeft(queue)
                   /\ UNCHANGED <<pc, visited, yielded, typed, expanded>>
              ELSE /\ visited' = visited \cup {current_node}
                   /\ typed' = IF FilterSet(node_filter)
                               THEN typed \cup {current_node} ELSE typed
                   /\ IF FilteredOut(current_node)
                      THEN /\ queue' = PopLeft(queue)
                           /\ UNCHANGED <<pc, yielded, expanded>>
                      ELSE /\ expanded' = expanded \cup {current_node}
                           /\ queue' = Enqueue(PopLeft(queue), next_nodes(current_node),
                                               visited', depth)
                           /\ yielded' = Append(yielded, <<current_node, depth>>)
                           /\ pc' = "yield"
           /\ IF pc' = "yield"
              THEN Consume(current_node)
              ELSE UNCHANGED <<results, network>>
    /\ UNCHANGED <<scene, args, caller, target_type, elsewhere>>

\* lines 156-171: one iteration of the loop, up to a `continue`, the yield or
\* an error of the host that leaves the generator.
Dequeue ==
    /\ pc = "loop"
    /\ queue # <<>>
    /\ LET current_node == Head(queue)[1]
           depth == Head(queue)[2]
       IN  /\ queue' = PopLeft(queue)
           /\ current' = Head(queue)
           /\ dequeued' = IF dequeued < MaxDequeued THEN dequeued + 1 ELSE dequeued
           /\ IF AlreadyVisited(current_node, visited) \/ TooDeep(depth)
              THEN UNCHANGED <<pc, visited, yielded, typed>>
              ELSE /\ visited' = visited \cup {current_node}
                   /\ typed' = IF FilterSet(node_filter)
                               THEN typed \cup {current_node} ELSE typed
                   /\ IF FilterSet(node_filter) /\ current_node \notin exists
                      THEN /\ \E answer \in HostAnswers :
                                pc' = IF answer = "error" THEN "raised" ELSE "loop"
                           /\ UNCHANGED yielded
                      ELSE IF FilteredOut(current_node)
                      THEN UNCHANGED <<pc, yielded>>
                      ELSE /\ yielded' = Append(yielded, <<current_node, depth>>)
                           /\ pc' = "yield"
           /\ IF pc' = "yield"
              THEN Consume(current_node)
              ELSE UNCHANGED <<results, network>>
    /\ UNCHANGED <<scene, args, expanded, caller, target_type, elsewhere>>

\* lines 173-189: the next() after a yield lists the neighbours and enqueues.
Resume ==
    /\ pc = "yield"
    /\ expanded' = expanded \cup {current[1]}
    /\ IF current[1] \notin exists
       THEN /\ \E answer \in HostAnswers :
                 pc' = IF answer = "error" THEN "raised" ELSE "loop"
            /\ UNCHANGED queue
       ELSE /\ queue' = Enqueue(queue, next_nodes(current[1]), visited, current[2])
            /\ pc' = "loop"
    /\ dequeued' = 0
    /\ UNCHANGED <<scene, args, visited, current, yielded, typed, consumer,
                   elsewhere>>

\* line 156: the queue is empty, the generator is exhausted.
Exhaust ==
    /\ pc = "loop"
    /\ queue = <<>>
    /\ pc' = "done"
    /\ UNCHANGED <<scene, args, visited, queue, current, yielded, expanded, typed,
                   dequeued, consumer, elsewhere>>

\* No traversal is in use.
TraversalIdle ==
    /\ exists = {}
    /\ ntype = <<>>
    /\ conn = <<>>
    /\ start_node = "A"
    /\ direction = UPSTREAM
    /\ max_depth = -1
    /\ node_filter = None
    /\ pc = "idle"
    /\ visited = {}
    /\ queue = <<>>
    /\ current = <<>>
    /\ yielded = <<>>
    /\ expanded = {}
    /\ typed = {}
    /\ dequeued = 0
    /\ NoQuery

InitExtract ==
    /\ TraversalIdle
    /\ ExtractorIdle /\ NoOtherCall /\ NoDGIterator /\ NoSelection /\ NoExporter

NextExtract == GetAllConnections \/ ExtractPair \/ ReturnConnections

\* get_all_connections, for every answer of the host of at most MaxPairs pairs.
ExtractSpec == InitExtract /\ [][NextExtract]_vars

Next == Call \/ Dequeue \/ Resume \/ Exhaust

\* Scenes of three nodes of one type, and a call from A without depth limit.
InitPair ==
    /\ exists = SmallIds
    /\ ntype = [n \in SmallIds |-> "mesh"]
    /\ conn \in ConnsUpTo(exists, MaxConns)
    /\ start_node = "A"
    /\ direction \in TraversalDirection
    /\ max_depth = -1
    /\ node_filter = None
    /\ pc = "created"
    /\ visited = {}
    /\ queue = <<>>
    /\ current = <<>>
    /\ yielded = <<>>
    /\ expanded = {}
    /\ typed = {}
    /\ dequeued = 0
    /\ NoQuery
    /\ ElsewhereIdle

\* Between two steps of the sequence the host scene changes: a node that
\* waits in the queue, other than the one just yielded, is deleted with its
\* connections.
DeleteNode ==
    /\ pc = "yield"
    /\ \E n \in exists :
        /\ n # current[1]
        /\ \E k \in 1 .. Len(queue) : queue[k][1] = n
        /\ exists' = exists \ {n}
        /\ ntype' = [m \in exists \ {n} |-> ntype[m]]
        /\ conn' = [p \in DOMAIN conn |-> IF n \in {p[1], p[2]} THEN 0 ELSE conn[p]]
    /\ UNCHANGED <<args, pc, visited, queue, current, yielded, expanded, typed,
                   dequeued, consumer, elsewhere>>

\* Scenes of three nodes, B of either type; calls from A without depth limit.
InitMut ==
    /\ exists = SmallIds
    /\ ntype \in {t \in [SmallIds -> NodeTypes] : t["A"] = "mesh" /\ t["C"] = "mesh"}
    /\ conn \in ConnsUpTo(exists, MaxConns)
    /\ start_node = "A"
    /\ direction \in TraversalDirection
    /\ max_depth = -1
    /\ node_filter \in {None, <<{"mesh"}>>}
    /\ pc = "created"
    /\ visited = {}
    /\ queue = <<>>
    /\ current = <<>>
    /\ yielded = <<>>
    /\ expanded = {}
    /\ typed = {}
    /\ dequeued = 0
    /\ NoQuery
    /\ ElsewhereIdle

NextMut == Next \/ DeleteNode

\* A call of traverse_graph on a scene that changes while the call is
\* suspended.
MutSpec == InitMut /\ [][NextMut]_vars

\* line 100: the module is loaded, _selection_stack = SelectionStack();
\* the host has some selection.
InitSel ==
    /\ TraversalIdle
    /\ ExtractorIdle
    /\ NoOtherCall
    /\ NoDGIterator
    /\ NoExporter
    /\ \E s \in Selections :
          sel = [selection |-> s, stack |-> <<>>, index |-> -1,
                 evicted |-> FALSE, truncated |-> FALSE, last |-> "none", last2 |-> "none", returned |-> "none",
                 before |-> s, before2 |-> s]

NextSel == ApplySelection \/ SelectDirect \/ UndoSelection \/ RedoSelection

\* The selection helpers with their history.
SelSpec == InitSel /\ [][NextSel]_vars

InitExport ==
    /\ TraversalIdle
    /\ ExtractorIdle
    /\ NoOtherCall
    /\ NoDGIterator
    /\ NoSelection
    /\ NoExporter

NextExport ==
    \/ NewExporter
    \/ ExportBegin
    \/ RunValidator
    \/ ValidatorsDone
    \/ EnsureOutputDirectory
    \/ ExecuteExport

\* SceneExporter(config).export() for every config tried.
ExportSpec == InitExport /\ [][NextExport]_vars

NextPair == Next \/ OtherCall \/ OtherNext

\* A call of traverse_graph and, before it and between its steps, other
\* calls, run to their end or left part-way.
PairSpec == InitPair /\ [][NextPair]_vars

Spec == Init /\ [][Next]_vars

\* The query functions built on the traversal.
QuerySpec == InitQuery /\ [][Next]_vars

\* The same calls, on the scenes of Init and on the four-node scenes.
WideSpec == (Init \/ InitWide) /\ [][Next]_vars

\* The calls of Init with the type names taken up to renaming: exchanging
\* "mesh" and "file" in ntype and in node_filter maps a call on a call with
\* the same steps, so A, when it exists, is a "mesh".
InitFair ==
    /\ Init
    /\ "A" \in exists => ntype["A"] = "mesh"

\* A caller that consumes the sequence to its end keeps asking for records.
FairSpec == InitFair /\ [][Next]_vars /\ WF_vars(Next)

\* ------------------------------------------------- graph-theoretic notions
\* What the claims speak of, stated on the scene alone (never through the
\* operators of the traversal).

YieldedNodes == {yielded[i][1] : i \in 1 .. Len(yielded)}

HasEdge(a, b) == a \in exists /\ b \in exists /\ conn[<<a, b>>] > 0

\* b is a neighbour of a in direction dir.
Neighbour(a, b, dir) ==
    \/ dir \in {UPSTREAM, BOTH} /\ HasEdge(b, a)
    \/ dir \in {DOWNSTREAM, BOTH} /\ HasEdge(a, b)

\* The nodes of S at most k edges from n, along dir, through nodes of S only.
RECURSIVE Ball(_, _, _, _)
Ball(n, dir, S, k) ==
    IF n \notin S THEN {}
    ELSE IF k = 0 THEN {n}
    ELSE LET B == Ball(n, dir, S, k - 1)
         IN  B \cup {m \in S : \E p \in B : Neighbour(p, m, dir)}

Reach(n, dir, S) == Ball(n, dir, S, Cardinality(NodeIds))

\* A shortest path from n to m along dir through S has d edges: m is within
\* d edges of n and not within d - 1 (the balls grow with k).
AtDistance(n, m, dir, S, d) ==
    /\ d >= 0
    /\ m \in Ball(n, dir, S, d)
    /\ d > 0 => m \notin Ball(n, dir, S, d - 1)

\* No directed cycle (a self connection is a cycle).
Acyclic == \A n \in exists : \A m \in exists :
    HasEdge(n, m) => n \notin Reach(m, DOWNSTREAM, exists)

Cycle3 == [p \in SmallIds \X SmallIds |->
            IF p \in {<<"A", "B">>, <<"B", "C">>, <<"C", "A">>} THEN 1 ELSE 0]

\* ------------------------------------------- DGIterator, the native walk

\* The orders in which the native iterator may hand out the nodes of S,
\* the root first.
NativeOrders(root, S) ==
    {q \in UNION {[1 .. k -> S] : k \in {Cardinality(S)}} :
        /\ q[1] = root
        /\ \A a \in 1 .. Len(q) : \A b \in 1 .. Len(q) : q[a] = q[b] => a = b}

\* lines 256-283: get_upstream_nodes() with the default traversal type
GetUpstreamNodes ==
    /\ dg.pc = "constructed"
    /\ \E q \in NativeOrders(dg.start_obj, Reach(dg.start_obj, UPSTREAM, exists)) :
          dg' = [dg EXCEPT !.pc = "queried",
                           !.nodes = [k \in 1 .. Len(q) |-> dg.names[q[k]]]]
    /\ UNCHANGED exceptDG

\* Every scene of at most three nodes with their short names.
InitDG ==
    /\ exists \in SUBSET SmallIds
    /\ ntype = [n \in exists |-> "mesh"]
    /\ conn \in ConnsUpTo(exists, MaxConns)
    /\ start_node = "A"
    /\ direction = UPSTREAM
    /\ max_depth = -1
    /\ node_filter = None
    /\ pc = "idle"
    /\ visited = {}
    /\ queue = <<>>
    /\ current = <<>>
    /\ yielded = <<>>
    /\ expanded = {}
    /\ typed = {}
    /\ dequeued = 0
    /\ NoQuery
    /\ ExtractorIdle
    /\ NoOtherCall
    /\ NoSelection
    /\ NoExporter
    /\ \E names \in [exists -> ShortNames] : dg = [pc |-> "idle", names |-> names]

NextDG == DGIteratorInit \/ GetUpstreamNodes

\* The construction of a DGIterator and a query of it.
DGSpec == InitDG /\ [][NextDG]_vars

\* ------------------------------------------------------------------ C1

\* C1: on every finite graph, cyclic ones included, for every start node,
\* direction, max_depth and node_filter, a traversal that is consumed to its
\* end terminates: the loop is left with an empty queue.
C1_Terminates == <>(pc = "done" /\ queue = <<>>)

\* The cycle A -> B -> C -> A, walked downstream from A without limit.
C1_Witness ==
    /\ pc = "done"
    /\ conn = Cycle3
    /\ direction = DOWNSTREAM /\ max_depth = -1 /\ node_filter = None
    /\ yielded = << <<"A", 0>>, <<"B", 1>>, <<"C", 2>> >>
    /\ queue = <<>>

\* ------------------------------------------------------------------ C2

\* A type filter was passed and it does not hold the type of n.
NotInFilter(n) == node_filter # None /\ ntype[n] \notin node_filter[1]

\* C2: when a type filter is passed, a dequeued node whose type is not in it
\* is marked visited, is not yielded and is not expanded; so every yielded
\* node is joined to the start by a path, along the direction, of nodes whose
\* types are all in the filter.
C2_FilteredOutNodeIsPruned ==
    node_filter # None =>
        /\ \A n \in exists :
              NotInFilter(n) => n \notin YieldedNodes /\ n \notin expanded
        /\ (current # <<>> /\ NotInFilter(current[1]) /\ ~(max_depth >= 0 /\ current[2] > max_depth))
              => current[1] \in visited
        /\ YieldedNodes \subseteq
              Reach(start_node, direction, {n \in exists : ~NotInFilter(n)})

\* The same for the filters that hold at least one type.
C2_Lemma_NonEmptyFilter == (node_filter # None /\ node_filter[1] # {}) => C2_FilteredOutNodeIsPruned

\* ------------------------------------------------------------------ C3

\* C3: a type filter that does not contain the type of the start node makes
\* the traversal yield nothing, whatever the types of the deeper nodes.
C3_ExcludedStartYieldsNothing ==
    (start_node \in exists /\ NotInFilter(start_node)) => yielded = <<>>

\* The same for the filters that hold at least one type.
C3_Lemma_NonEmptyFilter == (node_filter # None /\ node_filter[1] # {}) => C3_ExcludedStartYieldsNothing

\* ------------------------------------------------------------------ C4

\* C4: with max_depth = 0 a finished traversal has yielded exactly
\* (start_node, 0) when the start node exists and passes the filter, nothing
\* when it does not pass, and at no moment any other node.
C4_DepthZeroYieldsStartOnly ==
    max_depth = 0 =>
        /\ YieldedNodes \subseteq {start_node}
        /\ pc = "done" =>
              yielded = IF start_node \in exists /\ ~NotInFilter(start_node)
                        THEN << <<start_node, 0>> >> ELSE <<>>

\* The same for the filters that hold at least one type, and for no filter.
C4_Lemma_NonEmptyFilter == (node_filter = None \/ node_filter[1] # {}) => C4_DepthZeroYieldsStartOnly

\* ------------------------------------------------------------------ C5

\* The step dequeues an entry whose depth is beyond a non-negative max_depth.
DequeuesTooDeep ==
    pc = "loop" /\ queue # <<>> /\ max_depth >= 0 /\ Head(queue)[2] > max_depth

\* C5: with max_depth >= 0 no yielded record is deeper than max_depth, and
\* dequeuing a deeper entry marks nothing visited, yields nothing and expands
\* nothing; with a negative max_depth every dequeued node that is not yet
\* visited is taken, whatever its depth.
C5_DepthCeiling ==
    /\ [](max_depth >= 0 => \A i \in 1 .. Len(yielded) : yielded[i][2] <= max_depth)
    /\ [][DequeuesTooDeep =>
            /\ visited' = visited /\ yielded' = yielded /\ expanded' = expanded
            /\ pc' = "loop"]_vars
    /\ [][(pc = "loop" /\ queue # <<>> /\ max_depth < 0 /\ Head(queue)[1] \notin visited)
            => Head(queue)[1] \in visited']_vars

\* The cycle A -> B -> C -> A walked downstream from A with max_depth = 1:
\* C comes out of the queue at depth 2 and is dropped.
C5_Witness ==
    /\ pc = "done"
    /\ conn = Cycle3
    /\ direction = DOWNSTREAM /\ max_depth = 1 /\ node_filter = None
    /\ yielded = << <<"A", 0>>, <<"B", 1>> >>
    /\ current = <<"C", 2>>
    /\ "C" \notin visited

\* ------------------------------------------------------------------ C6

\* C6: within one call, whatever the graph (cycles, repeated entries in the
\* adjacency lists, any direction), no node is yielded twice, and every
\* yielded node is in the visited set.
C6_NoNodeYieldedTwice ==
    /\ \A i, j \in 1 .. Len(yielded) : yielded[i][1] = yielded[j][1] => i = j
    /\ YieldedNodes \subseteq visited

\* A node reached again: two nodes joined both ways by repeated connections,
\* walked in both directions, so the start comes back in the queue.
C6_Witness ==
    /\ pc = "done"
    /\ direction = BOTH
    /\ start_node = "A"
    /\ exists = {"A", "B"}
    /\ conn[<<"A", "B">>] = 2 /\ conn[<<"B", "A">>] = 1
    /\ Len(yielded) = 2

\* ------------------------------------------------------------------ C7

\* C7: on an acyclic graph, in each direction, a traversal without filter and
\* without depth limit yields only nodes reachable from the start in that
\* direction, none of them twice, and has yielded every one of them when done.
C7_AcyclicVisitsReachableOnce ==
    (node_filter = None /\ max_depth < 0 /\ Acyclic) =>
        /\ YieldedNodes \subseteq Reach(start_node, direction, exists)
        /\ Cardinality(YieldedNodes) = Len(yielded)
        /\ pc = "done" => YieldedNodes = Reach(start_node, direction, exists)

\* C is fed by A directly and through B; walked upstream from C.
C7_Witness ==
    /\ pc = "done"
    /\ Acyclic
    /\ exists = SmallIds
    /\ conn[<<"A", "B">>] = 1 /\ conn[<<"B", "C">>] = 1 /\ conn[<<"A", "C">>] = 1
    /\ start_node = "C" /\ direction = UPSTREAM
    /\ node_filter = None /\ max_depth = -1
    /\ YieldedNodes = SmallIds

\* ------------------------------------------------------------------ C8

\* The weakly connected component of n.
Component(n) == Reach(n, BOTH, exists)

\* C8: in direction BOTH, without filter or depth limit, a finished traversal
\* has yielded the weakly connected component of its start node, which is
\* also the component of every node joined to the start by an edge (either
\* way): the traversals from the two ends of an edge yield the same set.
C8_BothYieldsComponent ==
    (pc = "done" /\ direction = BOTH /\ node_filter = None /\ max_depth < 0
        /\ start_node \in exists) =>
        /\ YieldedNodes = Component(start_node)
        /\ \A m \in exists :
              (HasEdge(start_node, m) \/ HasEdge(m, start_node))
                  => YieldedNodes = Component(m)

\* A feeds B and C; walked from B, against the edge and then along the other.
C8_Witness ==
    /\ pc = "done"
    /\ direction = BOTH /\ node_filter = None /\ max_depth = -1
    /\ exists = SmallIds
    /\ conn[<<"A", "B">>] = 1 /\ conn[<<"A", "C">>] = 1
    /\ start_node = "B"
    /\ yielded = << <<"B", 0>>, <<"A", 1>>, <<"C", 2>> >>

\* ------------------------------------------------------------------ C9

\* C9: the depth of every yielded record (n, d) is the edge count of a
\* shortest path from the start to n that follows the direction and passes
\* only through yielded nodes.
C9_DepthIsBfsDistance ==
    \A i \in 1 .. Len(yielded) :
        AtDistance(start_node, yielded[i][1], direction, YieldedNodes, yielded[i][2])

\* C is one edge from A and also two edges from A through B.
C9_Witness ==
    /\ pc = "done"
    /\ exists = SmallIds
    /\ conn[<<"A", "B">>] = 1 /\ conn[<<"B", "C">>] = 1 /\ conn[<<"A", "C">>] = 1
    /\ start_node = "A" /\ direction = DOWNSTREAM
    /\ yielded = << <<"A", 0>>, <<"B", 1>>, <<"C", 1>> >>

\* ------------------------------------------------------------------ C10

\* C10: the depths of the yielded records never decrease along the sequence.
C10_LayerOrder ==
    \A i, j \in 1 .. Len(yielded) : i < j => yielded[i][2] <= yielded[j][2]

\* Two layers of two nodes and one: A feeds B and C, C feeds D.
C10_Witness ==
    /\ pc = "done"
    /\ exists = NodeIds
    /\ conn[<<"A", "B">>] = 1 /\ conn[<<"A", "C">>] = 1 /\ conn[<<"C", "D">>] = 1
    /\ start_node = "A" /\ direction = DOWNSTREAM
    /\ yielded = << <<"A", 0>>, <<"B", 1>>, <<"C", 1>>, <<"D", 2>> >>

\* ------------------------------------------------------------------ C11

\* C11: when the start node does not exist the call yields nothing, does not
\* raise, and asks the host neither a type nor the connections of any node.
C11_MissingStartYieldsNothing ==
    start_node \notin exists =>
        /\ pc \in {"created", "done"}
        /\ yielded = <<>>
        /\ queue = <<>> /\ visited = {}
        /\ typed = {} /\ expanded = {}

\* A scene with nodes, of which the start node is none; the call has returned.
C11_Witness ==
    /\ pc = "done"
    /\ start_node \notin exists
    /\ exists # {}
    /\ node_filter # None

\* ------------------------------------------------------------------ C12

\* The nodes of the yielded records, in order.
YieldedSeq == [i \in 1 .. Len(yielded) |-> yielded[i][1]]

\* The entries of s that are of type t, in the order of s.
OfType(s, t) == SelectSeq(s, LAMBDA n : ntype[n] = t)

\* C12: the list find_connected_nodes_by_type builds is the sequence yielded
\* by the traversal without filter and without depth limit, from the same
\* start in the same direction, reduced to the nodes of the target type, in
\* the same order; when done it holds exactly the reachable nodes of that type.
C12_FindIsTypedSubsequence ==
    caller = FIND =>
        /\ node_filter = None /\ max_depth < 0
        /\ results = OfType(YieldedSeq, target_type)
        /\ pc = "done" =>
              {results[i] : i \in 1 .. Len(results)} =
                  {n \in Reach(start_node, direction, exists) : ntype[n] = target_type}

\* A "file" feeds a "mesh" that feeds a "file": the search from the last one,
\* upstream, keeps the first and the last and drops the one between.
C12_Witness ==
    /\ caller = FIND /\ pc = "done"
    /\ exists = SmallIds
    /\ ntype = [n \in SmallIds |-> IF n = "B" THEN "mesh" ELSE "file"]
    /\ conn[<<"A", "B">>] = 1 /\ conn[<<"B", "C">>] = 1
    /\ start_node = "C" /\ direction = UPSTREAM /\ target_type = "file"
    /\ YieldedSeq = <<"C", "B", "A">>
    /\ results = <<"C", "A">>

\* ------------------------------------------------------------------ C13

\* The nodes within m edges of n along dir (all reachable ones when m < 0):
\* what a traversal without filter yields.
Within(n, dir, m) ==
    IF m < 0 THEN Reach(n, dir, exists)
    ELSE Ball(n, dir, exists, IF m < Cardinality(NodeIds) THEN m ELSE Cardinality(NodeIds))

\* The nodes held by the mapping.
NetworkNodes == UNION {{network[t][i] : i \in 1 .. Len(network[t])} : t \in DOMAIN network}

\* C13 as claimed: whatever direction and max_depth the caller has in mind,
\* the finished mapping holds exactly the nodes that the traversal in that
\* direction with that ceiling yields.
C13_AnyDirectionAndDepth ==
    (caller = SHADING /\ pc = "done") =>
        \A d \in TraversalDirection : \A m \in DepthArgs :
            NetworkNodes = Within(start_node, d, m)

\* C13 as amended: get_shading_network walks upstream with max_depth = 20 and
\* no filter; every node this traversal yields is in the mapping exactly
\* once, under its type, each bucket in the order of discovery, and the
\* mapping holds no other key and no other node.
C13_ShadingNetworkBuckets ==
    caller = SHADING =>
        /\ direction = UPSTREAM /\ max_depth = ShadingMaxDepth /\ node_filter = None
        /\ DOMAIN network = {ntype[n] : n \in YieldedNodes}
        /\ \A t \in DOMAIN network : network[t] = OfType(YieldedSeq, t)
        /\ pc = "done" => NetworkNodes = Within(start_node, UPSTREAM, ShadingMaxDepth)

\* Two "file" nodes feed a "mesh": two buckets, the files in discovery order.
C13_Witness ==
    /\ caller = SHADING /\ pc = "done"
    /\ exists = SmallIds
    /\ ntype = [n \in SmallIds |-> IF n = "C" THEN "mesh" ELSE "file"]
    /\ conn[<<"A", "C">>] = 1 /\ conn[<<"B", "C">>] = 1
    /\ start_node = "C"
    /\ network = [t \in {"mesh", "file"} |-> IF t = "mesh" THEN <<"C">> ELSE <<"A", "B">>]

\* ------------------------------------------------------------------ C14

\* C14: when the host lists the single pair (node.o, other.i) for the
\* queried node, the result is the one record with source = node, port o,
\* and dest = other, port i.
C14_SinglePairSourceIsNode ==
    (/\ xpc = "returned"
     /\ Len(links) = 1
     /\ links[1][1].node = node_arg /\ links[1][1].attr = <<"o">>
     /\ links[1][2].node # node_arg /\ links[1][2].attr = <<"i">>)
        => connections = <<ConnectionInfo(links[1][1].node, links[1][1].attr,
                                          links[1][2].node, links[1][2].attr)>>

\* ------------------------------------------------------------------ C15

\* The record C15 describes for the pair (a, b) of plugs and the queried node.
RecordOf(node, a, b) ==
    IF a.node = node
    THEN [source_node |-> b.node, source_attr |-> b.attr,
          dest_node |-> a.node, dest_attr |-> a.attr]
    ELSE [source_node |-> a.node, source_attr |-> a.attr,
          dest_node |-> b.node, dest_attr |-> b.attr]

C15_Witness_FullPath ==
    /\ xpc = "returned"
    /\ Len(links) = 2
    /\ node_arg = LongName("A")
    /\ connections[1] = ConnectionInfo(<<"A">>, <<"o">>, <<"B">>, <<"i">>)

\* ------------------------------------------------------------------ C16

\* C16: the result never holds the same record twice.
C16_NoDuplicateRecord ==
    xpc = "returned" =>
        \A j \in 1 .. Len(connections) : \A k \in 1 .. Len(connections) :
            connections[j] = connections[k] => j = k

\* ------------------------------------------------------------------ C17

\* The sequence a call yields when nothing else runs: the walk from the
\* queue q with the visited set vis, after the records out.
RECURSIVE Walk(_, _, _)
Walk(q, vis, out) ==
    IF q = <<>> THEN out
    ELSE LET n == Head(q)[1]
             d == Head(q)[2]
         IN  IF n \in vis \/ (max_depth >= 0 /\ d > max_depth)
             THEN Walk(Tail(q), vis, out)
             ELSE IF FilterSet(node_filter) /\ ntype[n] \notin node_filter[1]
             THEN Walk(Tail(q), vis \cup {n}, out)
             ELSE Walk(Tail(q) \o
                         SelectSeq([k \in 1 .. Len(next_nodes_in(direction, n)) |->
                                       <<next_nodes_in(direction, n)[k], d + 1>>],
                                   LAMBDA e : e[1] \notin vis \cup {n}),
                       vis \cup {n}, Append(out, <<n, d>>))

SoloSequence == Walk(<<<<start_node, 0>>>>, {}, <<>>)

\* C17: whatever other calls were finished or left part-way before, and
\* whatever steps of another call come between its own, a call yields the
\* sequence it yields when run alone.
C17_NoSharedState ==
    /\ pc \in {"loop", "yield"} =>
          /\ Len(yielded) <= Len(SoloSequence)
          /\ yielded = SubSeq(SoloSequence, 1, Len(yielded))
    /\ pc = "done" => yielded = SoloSequence

\* The call has yielded its three nodes while another call, started in
\* between, is suspended after visiting some of them.
C17_Witness ==
    /\ pc = "done"
    /\ Len(yielded) = 3
    /\ other_call.pc = "yield"
    /\ other_call.start_node = "B"
    /\ Cardinality(other_call.visited) = 2

\* ------------------------------------------------------------------ C18

\* C18: a neighbour that was enqueued and is gone from the scene when it is
\* dequeued does not make the traversal raise.
C18_VanishedNeighbourDoesNotRaise == pc # "raised"

\* The part of C18 that holds when the host answers None instead of
\* raising: the vanished node adds nothing to the queue.
C18_Lemma_VanishedAddsNothing ==
    [][(pc = "yield" /\ current[1] \notin exists /\ pc' = "loop") => queue' = queue]_vars

\* ------------------------------------------------------------------ C19

\* The nodes of the scene that bear the name.
Bearers(name) == {n \in exists : dg.names[n] = name}

\* C19: when the start name is borne by no node or by more than one, the
\* construction fails: no iterator object exists, none is queried.
C19_ConstructionNeedsOneMatch ==
    (dg.pc # "idle" /\ Cardinality(Bearers(dg.start_node)) # 1) => dg.pc = "failed"

\* The part of C19 that holds: a name borne by no node makes the
\* construction fail.
C19_Lemma_NoMatchFails ==
    (dg.pc # "idle" /\ Bearers(dg.start_node) = {}) => dg.pc = "failed"

\* ------------------------------------------------------------------ C20

\* C20: an undo_selection() made right after an operation of the selection
\* helpers returns True and leaves the selection that was current just
\* before that operation.
C20_UndoRestoresPreviousSelection ==
    (sel.last = "undo" /\ sel.last2 = "apply") =>
        /\ sel.returned = TRUE
        /\ sel.selection = sel.before2

\* ------------------------------------------------------------------ C21

\* C21: a redo_selection() made right after an undo_selection() that
\* returned True returns True and leaves the selection that was current
\* just before that undo.
C21_RedoRestoresSelectionBeforeUndo ==
    [][(sel.last = "undo" /\ sel.returned = TRUE /\ sel'.last = "redo")
          => (sel'.returned = TRUE /\ sel'.selection = sel.before)]_vars

\* The part of C21 that holds: such a redo returns True.
C21_Lemma_RedoAfterUndoReturnsTrue ==
    [][(sel.last = "undo" /\ sel.returned = TRUE /\ sel'.last = "redo")
          => sel'.returned = TRUE]_vars

\* ------------------------------------------------------------------ C22

\* The config asks for an unsupported suffix, or one of its validators
\* returns False or raises.
MustNotExport ==
    \/ ex.suffix \notin {".ma", ".MA", ".Fbx"}
    \/ \E k \in 1 .. Len(ex.validators) : ex.validators[k] # "True"

Appended == SubSeq(queue', Len(queue) + 1, Len(queue'))

\* C23: the expansion of a node appends at most one queue entry for each
\* neighbour.
C23_ExpansionEnqueuesNeighbourOnce ==
    [][(pc = "yield" /\ pc' = "loop") =>
          \A j \in 1 .. Len(Appended) : \A k \in 1 .. Len(Appended) :
              Appended[j][1] = Appended[k][1] => j = k]_vars

\* The part of C23 that holds: only unvisited neighbours of the expanded
\* node are appended, one level below it.
C23_Lemma_AppendedAreUnvisitedNeighbours ==
    [][(pc = "yield" /\ pc' = "loop" /\ current[1] \in exists) =>
          \A j \in 1 .. Len(Appended) :
              /\ Appended[j][1] \notin visited
              /\ Appended[j][2] = current[2] + 1
              /\ Neighbour(current[1], Appended[j][1], direction)]_vars

\* ------------------------------------------------------------------ C24

\* C24: no step appends a queue entry for a node that is in the visited set
\* at that moment; an entry whose node has become visited while it waited
\* is dropped when dequeued, with no yield, no type query and no adjacency
\* query.
C24_NoAppendForVisited ==
    [][/\ Len(queue') > Len(queue) =>
              \A j \in 1 .. Len(Appended) : Appended[j][1] \notin visited
       /\ (pc = "loop" /\ queue # <<>> /\ Head(queue)[1] \in visited) =>
              /\ queue' = Tail(queue)
              /\ pc' = "loop"
              /\ UNCHANGED <<visited, yielded, typed, expanded>>]_vars

\* An entry of a node visited meanwhile has just been dropped: it is the
\* entry last dequeued, it was not yielded, and neither the depth limit nor
\* a filter can have been the reason.
C24_Witness ==
    /\ pc = "loop"
    /\ current # <<>>
    /\ current[1] \in visited
    /\ \A i \in 1 .. Len(yielded) : yielded[i] # current
    /\ max_depth < 0
    /\ node_filter = None

\* ------------------------------------------------------------------ C25

\* C25 as claimed: between two consecutive yields, and between the last
\* yield and the exhaustion, exactly one queue entry is dequeued.
C25_OneDequeuePerStep ==
    /\ (pc = "yield" /\ Len(yielded) >= 2) => dequeued = 1
    /\ (pc = "done" /\ yielded # <<>>) => dequeued = 1

\* C25 as amended: a next() dequeues entries until one is yielded or the
\* queue is empty. The entry that is yielded is the last one dequeued, so at
\* least one entry is dequeued between two yields; every entry dequeued
\* before it was dropped because its node was visited, it was too deep, or
\* the filter test rejected its node; before the exhaustion the queue is
\* emptied in the same way.
C25_DequeuesUntilYield ==
    [][/\ pc' = "yield" =>
              /\ dequeued' >= 1
              /\ yielded'[Len(yielded')] = current'
              /\ (pc = "loop" => current' = Head(queue))
       /\ (pc = "loop" /\ pc' = "loop") =>
              /\ queue' = Tail(queue)
              /\ dequeued' = dequeued + 1
              /\ yielded' = yielded
              /\ \/ Head(queue)[1] \in visited
                 \/ (max_depth >= 0 /\ Head(queue)[2] > max_depth)
                 \/ (node_filter # None /\ node_filter[1] # {}
                     /\ ntype[Head(queue)[1]] \notin node_filter[1])
       /\ pc' = "done" => (queue = <<>> /\ dequeued' = dequeued)]_vars

\* One entry was dropped and the next one yielded within one next(), on a
\* walk without filter and depth limit.
C25_Witness ==
    /\ pc = "yield"
    /\ dequeued = 2
    /\ node_filter = None
    /\ max_depth < 0
    /\ Len(yielded) = 3

\* The count of dequeued entries never reaches its ceiling.
DequeuedBelowCeiling == dequeued < MaxDequeued

\* ------------------------------------------------------------------ C26

\* The sequence that the call with the same start, direction and max_depth
\* and with node_filter = None yields: the walk from the queue q with the
\* visited set vis, after the records out.
RECURSIVE WalkNoFilter(_, _, _)
WalkNoFilter(q, vis, out) ==
    IF q = <<>> THEN out
    ELSE LET n == Head(q)[1]
             d == Head(q)[2]
         IN  IF n \in vis \/ (max_depth >= 0 /\ d > max_depth)
             THEN WalkNoFilter(Tail(q), vis, out)
             ELSE WalkNoFilter(
                      Tail(q) \o
                        SelectSeq([k \in 1 .. Len(next_nodes_in(direction, n)) |->
                                      <<next_nodes_in(direction, n)[k], d + 1>>],
                                  LAMBDA e : e[1] \notin vis \cup {n}),
                      vis \cup {n}, Append(out, <<n, d>>))

UnfilteredSequence ==
    IF start_node \in exists THEN WalkNoFilter(<<<<start_node, 0>>>>, {}, <<>>) ELSE <<>>

\* The call with node_filter = None does yield that sequence.
C26_Lemma_NoneYieldsUnfilteredSequence ==
    (node_filter = None /\ pc = "done") => yielded = UnfilteredSequence

FirstYielded(k) == {yielded[i][1] : i \in 1 .. k}

\* C27: the connections of a node are listed only after the node was
\* yielded and only when the next record is asked for. The nodes listed
\* are always among the yielded ones; while the consumer holds the k-th
\* record they are the first k - 1 yielded nodes; once the next record is
\* asked for, and after exhaustion, they are all the yielded nodes.
C27_AdjacencyQueriedAfterYield ==
    /\ expanded \subseteq YieldedNodes
    /\ pc = "yield" => expanded = FirstYielded(Len(yielded) - 1)
    /\ pc \in {"loop", "done"} => expanded = YieldedNodes

\* The consumer holds the second of three records that the walk will
\* yield: only the connections of the first node have been listed.
C27_Witness ==
    /\ pc = "yield"
    /\ Len(yielded) = 2
    /\ Cardinality(expanded) = 1
    /\ queue # <<>>
    /\ Head(queue)[1] \notin visited

\* ------------------------------------------------------------------ C28

\* The nodes find_connected_nodes_by_type(start_node, t, direction) returns:
\* the nodes of type t of the walk without filter and without depth limit.
FindNodes(t) ==
    LET walk == UnfilteredSequence
    IN  {walk[i][1] : i \in {j \in 1 .. Len(walk) : ntype[walk[j][1]] = t}}

\* The call under comparison: a filter of one type, no depth limit.
OneTypeFilter == node_filter # None /\ Cardinality(node_filter[1]) = 1 /\ max_depth < 0

FilterType == CHOOSE t \in NodeTypes : node_filter[1] = {t}

\* C28: every node yielded by traverse_graph(start, direction, -1, {T}) is
\* among the nodes find_connected_nodes_by_type(start, T, direction) returns.
C28_FilteredYieldWithinFind ==
    (OneTypeFilter /\ yielded # <<>>) => YieldedNodes \subseteq FindNodes(FilterType)

\* The inclusion is strict here: the filtered walk stopped at a node of the
\* other type, behind which the search finds a further node of the type.
C28_Witness ==
    /\ OneTypeFilter
    /\ pc = "done"
    /\ YieldedNodes # {}
    /\ YieldedNodes # FindNodes(FilterType)
    /\ \E n \in exists : n \in visited /\ ntype[n] # FilterType /\ n \notin expanded

\* ------------------------------------------------------------------ C29

\* A step of push: _apply_selection with nodes to select.
PushStep == sel'.last = "apply"

\* The index stays within the stack and the stack within its size, so the
\* snapshots undo and redo read exist.
StackBounds ==
    /\ -1 <= sel.index /\ sel.index <= Len(sel.stack) - 1
    /\ Len(sel.stack) <= MaxSize
    /\ sel.index > 0 => sel.index - 1 \in 0 .. Len(sel.stack) - 1
    /\ sel.index < Len(sel.stack) - 1 => sel.index + 1 \in 0 .. Len(sel.stack) - 1

\* push dropped the oldest snapshot and points at the new one.
EvictedOldest ==
    /\ sel'.stack = Append(Tail(sel.stack), sel.selection)
    /\ sel'.index = Len(sel'.stack) - 1

\* C29 as stated: the bounds hold, and push on a full stack evicts the oldest
\* snapshot and keeps the index at the newly pushed one.
C29_FullStackPushEvicts ==
    /\ []StackBounds
    /\ [][(PushStep /\ Len(sel.stack) = MaxSize) => EvictedOldest]_vars

\* C29, amended: the bounds hold, and push on a full stack whose index is at
\* the last snapshot evicts the oldest snapshot and keeps the index at the
\* newly pushed one.
C29_FullStackPushAtTopEvicts ==
    /\ []StackBounds
    /\ [][(PushStep /\ Len(sel.stack) = MaxSize /\ sel.index = Len(sel.stack) - 1)
             => (EvictedOldest /\ sel'.evicted)]_vars

\* A push has just evicted the oldest snapshot of a full stack.
C29_Witness ==
    /\ sel.last = "apply"
    /\ sel.evicted
    /\ Len(sel.stack) = MaxSize
    /\ sel.index = MaxSize - 1

\* A push on a full stack after an undo: nothing is evicted.
C29_Lemma_FullStackBelowTopTruncates ==
    [][(PushStep /\ Len(sel.stack) = MaxSize /\ sel.index < Len(sel.stack) - 1)
          => (~sel'.evicted /\ sel'.stack[1] = sel.stack[1])]_vars

\* ------------------------------------------------------------------ C30

\* The stack a push leaves when snapshots lie above the current position:
\* those up to the position, then the new one.
TruncatedAndAppended ==
    sel'.stack = Append(SubSeq(sel.stack, 1, sel.index + 1), sel.selection)

\* C30: a push made below the top of the stack discards the snapshots above
\* the current position before it appends; after any push the index is at
\* the last snapshot, and a redo that follows at once returns False and
\* changes neither the selection nor the stack.
C30_PushDiscardsRedoHistory ==
    [][/\ PushStep =>
            /\ sel'.index = Len(sel'.stack) - 1
            /\ sel.index < Len(sel.stack) - 1 => TruncatedAndAppended
       /\ (sel.last = "apply" /\ sel'.last = "redo") =>
            /\ sel'.returned = FALSE
            /\ sel'.selection = sel.selection
            /\ sel'.stack = sel.stack
            /\ sel'.index = sel.index]_vars

\* After an undo a push discarded the snapshots above the position, and the
\* redo that followed found nothing to restore.
C30_Witness ==
    /\ sel.last = "redo" /\ sel.last2 = "apply"
    /\ sel.truncated
    /\ sel.returned = FALSE
    /\ Len(sel.stack) = 2

====
